---- MODULE Spec2Model ----
(***************************************************************************)
(* file_offset: FileExt::read_offset / FileExt::write_offset on an open    *)
(* std::fs::File.  The trait implementation (src/lib.rs) forwards each     *)
(* call to sys::read_offset / sys::write_offset; the sys module maps them  *)
(* onto the host's positional I/O primitive (pread64/pwrite64 on Unix,     *)
(* ReadFile/WriteFile with an offset on Windows).                          *)
(*                                                                         *)
(* State: the file's bytes, the handle's cursor, the handle's open mode,   *)
(* the target platform, and for every calling thread the call it is in.    *)
(***************************************************************************)
EXTENDS Integers, Sequences, FiniteSets, TLC

\* ------------------------------------------------------------------ inputs
\* the longest buffer a caller passes
MaxLen == 2

\* the offsets a caller passes, and the largest of them
Offsets == {0, 1, 2}
MaxOffset == CHOOSE o \in Offsets : \A p \in Offsets : p <= o
\* no call grows the file beyond this size
MaxSize == MaxOffset + MaxLen
\* the calls concurrent threads make
ConcLens == {2}
ConcOffsets == {0, 1}
Threads == {1, 2}
\* the thread of the sequential runs
Caller == CHOOSE t \in Threads : \A u \in Threads : t <= u
Platforms == {"posix", "windows"}
ErrorKinds == {"Interrupted", "Other"}
Faults == {"none"} \cup ErrorKinds
InitFiles == {<< >>, <<1, 2, 3>>}
\* where the caller seeks to: a position no call at these offsets ends at
SeekPos == MaxSize + 1

VARIABLES
    platform,   \* the back-end linked into the build
    append,     \* TRUE when the handle was opened in append-only mode
    file,       \* the file's bytes; Len(file) is its size
    cursor,     \* the handle's seek position
    pc,         \* pc[t]: "idle", "called" (inside the method), "returned"
    req,        \* req[t]: the method called and its offset argument
    buf,        \* buf[t]: the caller's buffer
    res,        \* res[t]: what the method returned to the caller
    sysres,     \* sysres[t]: what the last back-end call returned
    ncalls,     \* ncalls[t]: back-end calls issued by the current method call
    fault,      \* fault[t]: the fault the host raised in the last back-end call
    presize,    \* the file's size before a sequential caller's back-end call
    follow      \* how a sequential caller's call relates to its previous call

vars == <<platform, append, file, cursor, pc, req, buf, res, sysres, ncalls, fault, presize, follow>>

\* ------------------------------------------------------------------ values
Min(a, b) == IF a < b THEN a ELSE b
Max(a, b) == IF a > b THEN a ELSE b

\* io::Result<usize>
Ok(n) == [ok |-> TRUE, count |-> n, kind |-> "none"]
Err(k) == [ok |-> FALSE, count |-> 0, kind |-> k]
NoRes == [ok |-> FALSE, count |-> 0, kind |-> "pending"]
NoReq == [op |-> "none", offset |-> 0]
NoFollow == [kind |-> "none", n |-> 0]

\* the bytes thread t writes: position i of its source buffer holds 10 * t + i
SrcBuf(t, n) == [i \in 1..n |-> 10 * t + i]
\* a destination buffer before the call: 99 in every position, a value no
\* file byte has
DstBuf(n) == [i \in 1..n |-> 99]

\* f with bytes b placed at position pos; a gap below pos is zero-filled
Overlay(f, b, pos) ==
    LET size == Max(Len(f), pos + Len(b))
    IN [i \in 1..size |->
            IF i > pos /\ i <= pos + Len(b) THEN b[i - pos]
            ELSE IF i <= Len(f) THEN f[i]
            ELSE 0]

\* ------------------------------------------------------------ the back-end
\* Variants: every back-end moves the cursor; no back-end does.
moves_cursor_always == TRUE
moves_cursor_never == FALSE

\* Which back-end moves the handle's cursor.
moves_cursor == platform = "windows"

\* Bytes a read at offset can deliver from f into a buffer of length len.
Available(f, len, offset) ==
    IF offset >= Len(f) THEN 0 ELSE Min(len, Len(f) - offset)

\* The counts the kernel may report: a read returns 0 only at end of file or
\* for an empty buffer, a write may accept any prefix.
ReadCounts(f, len, offset) ==
    IF Available(f, len, offset) = 0 THEN {0} ELSE 1..Available(f, len, offset)
WriteCounts(len) == 0..len

\* Where the kernel places written bytes: at offset, except that a POSIX
\* kernel may ignore offset for an append-only handle and write at the end.
WritePositions(f, offset) ==
    IF platform = "posix" /\ append THEN {offset, Len(f)} ELSE {offset}

\* sys::read_offset(file, buf, offset): one positional read.
sys_read_offset(f, cur, b, offset, flt, n) ==
    IF flt # "none"
    THEN [result |-> Err(flt), buf |-> b, file |-> f, cursor |-> cur]
    ELSE [result |-> Ok(n),
          buf |-> [i \in 1..Len(b) |-> IF i <= n THEN f[offset + i] ELSE b[i]],
          file |-> f,
          cursor |-> IF moves_cursor THEN offset + n ELSE cur]

\* sys::write_offset(file, buf, offset): one positional write.
sys_write_offset(f, cur, b, offset, flt, n, pos) ==
    IF flt # "none"
    THEN [result |-> Err(flt), buf |-> b, file |-> f, cursor |-> cur]
    ELSE [result |-> Ok(n),
          buf |-> b,
          file |-> IF n = 0 THEN f ELSE Overlay(f, SubSeq(b, 1, n), pos),
          cursor |-> IF moves_cursor THEN offset + n ELSE cur]

\* ------------------------------------------------- impl FileExt for File
\* Variants: the offset argument is not passed on; the other back-end
\* function is called.
read_offset_drops_offset(b, offset) ==
    [fn |-> "sys::read_offset", buf |-> b, offset |-> 0]

write_offset_drops_offset(b, offset) ==
    [fn |-> "sys::write_offset", buf |-> b, offset |-> 0]

read_offset_calls_write(b, offset) ==
    [fn |-> "sys::write_offset", buf |-> b, offset |-> offset]

\* The back-end call the method issues.
read_offset(b, offset) ==
    [fn |-> "sys::read_offset", buf |-> b, offset |-> offset]

write_offset(b, offset) ==
    [fn |-> "sys::write_offset", buf |-> b, offset |-> offset]

\* Variants: a transfer shorter than the buffer is reported as an error (as
\* read_exact does); end of file is reported as an error; an interrupted call
\* is issued again; a short write is issued again until the whole buffer is
\* accepted; a write of zero bytes is reported as an error (as write_all does).
read_offset_ret_exact(b, offset, r) ==
    [done |-> TRUE,
     result |-> IF r.ok /\ r.count < Len(b) THEN Err("Other") ELSE r]

read_offset_ret_eof_error(b, offset, r) ==
    [done |-> TRUE,
     result |-> IF r.ok /\ r.count = 0 /\ Len(b) > 0 THEN Err("Other") ELSE r]

read_offset_ret_retry(b, offset, r) ==
    [done |-> ~(~r.ok /\ r.kind = "Interrupted"), result |-> r]

write_offset_ret_loop(b, offset, r) ==
    [done |-> ~(r.ok /\ r.count < Len(b)), result |-> r]

write_offset_ret_write_zero(b, offset, r) ==
    [done |-> TRUE,
     result |-> IF r.ok /\ r.count = 0 THEN Err("Other") ELSE r]

\* What the method does with the back-end's result r: the call is the
\* method's tail expression, so the method ends and r is its result.
read_offset_ret(b, offset, r) == [done |-> TRUE, result |-> r]

write_offset_ret(b, offset, r) == [done |-> TRUE, result |-> r]

\* The call thread t's method issues, and the method's reaction to result r.
Forwarded(t) ==
    IF req[t].op = "read" THEN read_offset(buf[t], req[t].offset)
    ELSE write_offset(buf[t], req[t].offset)

Returned(t, r) ==
    IF req[t].op = "read" THEN read_offset_ret(buf[t], req[t].offset, r)
    ELSE write_offset_ret(buf[t], req[t].offset, r)

\* The kernel's choices for call c against file f.
Counts(c, f) ==
    IF c.fn = "sys::read_offset" THEN ReadCounts(f, Len(c.buf), c.offset)
    ELSE WriteCounts(Len(c.buf))

Positions(c, f) ==
    IF c.fn = "sys::read_offset" THEN {c.offset} ELSE WritePositions(f, c.offset)

sys_call(c, flt, n, pos) ==
    IF c.fn = "sys::read_offset"
    THEN sys_read_offset(file, cursor, c.buf, c.offset, flt, n)
    ELSE sys_write_offset(file, cursor, c.buf, c.offset, flt, n, pos)

\* ----------------------------------------------------------------- actions
Init ==
    /\ platform \in Platforms
    /\ append \in BOOLEAN
    /\ file \in InitFiles
    /\ cursor = 0
    /\ pc = [t \in Threads |-> "idle"]
    /\ req = [t \in Threads |-> NoReq]
    /\ buf = [t \in Threads |-> << >>]
    /\ res = [t \in Threads |-> NoRes]
    /\ sysres = [t \in Threads |-> NoRes]
    /\ ncalls = [t \in Threads |-> 0]
    /\ fault = [t \in Threads |-> "none"]
    /\ presize = 0
    /\ follow = NoFollow

\* The caller moves the handle's cursor (File::seek).
Seek ==
    /\ cursor # SeekPos /\ cursor' = SeekPos
    /\ UNCHANGED <<platform, append, file, pc, req, buf, res, sysres, ncalls, fault, presize, follow>>

\* Thread t enters read_offset or write_offset with a buffer and an offset.
Enter(t, op, len, offset) ==
    /\ pc[t] \in {"idle", "returned"}
    /\ pc' = [pc EXCEPT ![t] = "called"]
    /\ req' = [req EXCEPT ![t] = [op |-> op, offset |-> offset]]
    /\ buf' = [buf EXCEPT ![t] = IF op = "read" THEN DstBuf(len) ELSE SrcBuf(t, len)]
    /\ res' = [res EXCEPT ![t] = NoRes]
    /\ sysres' = [sysres EXCEPT ![t] = NoRes]
    /\ ncalls' = [ncalls EXCEPT ![t] = 0]
    /\ fault' = [fault EXCEPT ![t] = "none"]
    /\ UNCHANGED <<platform, append, file, cursor>>

Invoke(t) ==
    /\ \E op \in {"read", "write"}, len \in ConcLens, offset \in ConcOffsets :
          Enter(t, op, len, offset)
    /\ UNCHANGED <<presize, follow>>

\* How the call a sequential caller now enters follows its previous call:
\* "readback" reads at the offset of a write that transferred n bytes, into
\* a buffer of at least n bytes; "retry" repeats a call that was interrupted.
Follows(t) ==
    IF pc[t] = "returned" /\ req[t].op = "write" /\ res[t].ok
       /\ req'[t].op = "read" /\ req'[t].offset = req[t].offset
       /\ Len(buf'[t]) >= res[t].count
    THEN [kind |-> "readback", n |-> res[t].count]
    ELSE IF pc[t] = "returned" /\ ~res[t].ok /\ res[t].kind = "Interrupted"
            /\ req'[t] = req[t] /\ Len(buf'[t]) = Len(buf[t])
    THEN [kind |-> "retry", n |-> 0]
    ELSE NoFollow

\* The same in a sequential caller, which remembers its previous call.
InvokeSeq(t) ==
    /\ \E op \in {"read", "write"}, len \in 0..MaxLen, offset \in Offsets :
          Enter(t, op, len, offset)
    /\ follow' = Follows(t)
    /\ UNCHANGED presize

\* The back-end call of thread t's method runs in the kernel, with the fault
\* the host raises (if any), and the method reacts to its result.
SysCore(t) ==
    /\ pc[t] = "called"
    /\ LET c == Forwarded(t)
       IN \E flt \in Faults, n \in Counts(c, file), pos \in Positions(c, file) :
            LET out == sys_call(c, flt, n, pos)
                w == Returned(t, out.result)
            IN /\ Len(out.file) <= MaxSize
               /\ file' = out.file
               /\ cursor' = out.cursor
               /\ buf' = [buf EXCEPT ![t] = out.buf]
               /\ sysres' = [sysres EXCEPT ![t] = out.result]
               /\ fault' = [fault EXCEPT ![t] = flt]
               /\ ncalls' = [ncalls EXCEPT ![t] = @ + 1]
               /\ pc' = [pc EXCEPT ![t] = IF w.done THEN "returned" ELSE "called"]
               /\ res' = [res EXCEPT ![t] = IF w.done THEN w.result ELSE @]
    /\ UNCHANGED <<platform, append, req>>

SysStep(t) == SysCore(t) /\ UNCHANGED <<presize, follow>>

\* The same in a sequential caller, which notes the size the file had.
SysStepSeq(t) == SysCore(t) /\ presize' = Len(file) /\ UNCHANGED follow

\* Threads calling concurrently on one handle.
Next ==
    \/ Seek
    \/ \E t \in Threads : Invoke(t)
    \/ \E t \in Threads : SysStep(t)

Spec == Init /\ [][Next]_vars

\* One thread calling, one call after the other.
NextSeq ==
    \/ Seek
    \/ InvokeSeq(Caller)
    \/ SysStepSeq(Caller)

SpecSeq == Init /\ [][NextSeq]_vars

\* ------------------------------------------------------------------ claims
\* Thread t's method call ends in this step.
Completes(t) == pc[t] = "called" /\ pc'[t] = "returned"

Prefix(b, n) == SubSeq(b, 1, n)

\* The read that has just returned read back the previous write: its first
\* min(n, n_read) bytes are the first bytes the write transferred.
ReadBackAgrees ==
    (pc[Caller] = "returned" /\ follow.kind = "readback" /\ res[Caller].ok) =>
        LET m == Min(follow.n, res[Caller].count)
        IN Prefix(buf[Caller], m) = Prefix(SrcBuf(Caller, follow.n), m)

\* C1 (as stated): for every handle, a read_offset at offset O that follows a
\* write_offset of B at O that transferred n bytes, with nothing touching the
\* file in between and a buffer of at least n bytes, holds in its first
\* min(n, n_read) bytes the first bytes of B.
C1_RoundTripEveryHandle == ReadBackAgrees

\* C1 (amended): the same for a handle that was not opened in append-only
\* mode.
C1_RoundTrip == ~append => ReadBackAgrees

C1_Witness ==
    /\ ~append
    /\ pc[Caller] = "returned" /\ follow.kind = "readback" /\ res[Caller].ok
    /\ req[Caller].offset > 0
    /\ follow.n = MaxLen /\ res[Caller].count = MaxLen
    /\ buf[Caller] = SrcBuf(Caller, MaxLen)

\* C2: every successful read_offset or write_offset returns a count between
\* 0 and the buffer's length, and a transfer the back-end reports as shorter
\* than the buffer is returned as a success.
C2_BoundedTransfer ==
    \A t \in Threads :
        pc[t] = "returned" =>
            /\ res[t].ok => (0 <= res[t].count /\ res[t].count <= Len(buf[t]))
            /\ (sysres[t].ok /\ sysres[t].count < Len(buf[t])) => res[t].ok

C2_Witness ==
    \E t \in Threads :
        /\ pc[t] = "returned" /\ res[t].ok
        /\ res[t].count > 0 /\ res[t].count < Len(buf[t])

\* C3: on the POSIX back-end no step of a read_offset or write_offset call
\* (entering it, its back-end call, returning from it, successful or failed,
\* whatever the other thread is doing) changes the handle's cursor.
C3_PosixCursorUnchanged ==
    [][(platform = "posix" /\ pc' # pc) => cursor' = cursor]_vars

C3_Witness ==
    /\ platform = "posix" /\ cursor = SeekPos
    /\ \E t, u \in Threads :
        /\ pc[t] = "returned" /\ res[t].ok /\ res[t].count > 0
        /\ pc[u] = "returned" /\ ~res[u].ok

\* C4: on the Windows back-end a read_offset or write_offset call at offset
\* that returns successfully with count leaves the cursor at offset + count.
C4_WindowsCursorMoves ==
    [][\A t \in Threads :
        (platform = "windows" /\ Completes(t) /\ res'[t].ok) =>
            cursor' = req[t].offset + res'[t].count]_vars

C4_Witness ==
    /\ platform = "windows"
    /\ \E t \in Threads :
        /\ pc[t] = "returned" /\ res[t].ok /\ res[t].count = MaxLen
        /\ req[t].op = "read" /\ req[t].offset = 0
        /\ cursor = MaxLen

\* C5: a read_offset with a non-empty buffer at an offset at or past the end
\* of the file, in which the host raises no fault, returns Ok(0).
C5_EofSignalling ==
    (/\ pc[Caller] = "returned" /\ req[Caller].op = "read"
     /\ Len(buf[Caller]) > 0 /\ req[Caller].offset >= presize
     /\ fault[Caller] = "none") => res[Caller] = Ok(0)

C5_Witness ==
    /\ pc[Caller] = "returned" /\ req[Caller].op = "read"
    /\ Len(buf[Caller]) > 0 /\ presize > 0 /\ req[Caller].offset >= presize
    /\ res[Caller] = Ok(0)

\* What read_offset at offset delivers from file f into a one-byte buffer
\* when the host raises no fault.
ReadByte(f, offset) ==
    LET c == read_offset(DstBuf(1), offset)
    IN sys_read_offset(f, 0, c.buf, c.offset, "none", 1).buf

\* After the write that has just returned, the file is at least offset + count
\* long and every byte between its old end and offset reads back as zero.
Extended ==
    /\ Len(file) >= req[Caller].offset + res[Caller].count
    /\ \A o \in presize..(req[Caller].offset - 1) : ReadByte(file, o) = <<0>>

\* A write_offset beyond the file's end, without a fault, has just returned.
WroteBeyondEnd ==
    /\ pc[Caller] = "returned" /\ req[Caller].op = "write"
    /\ req[Caller].offset > presize /\ fault[Caller] = "none"

\* C6 (as stated): a write_offset at an offset beyond the file's size
\* succeeds, leaves the file at least offset + count long and the gap reads
\* back as zeros.
C6_SparseExtensionEveryWrite ==
    WroteBeyondEnd => (res[Caller].ok /\ Extended)

\* C6 (amended): a write_offset at an offset beyond the file's size succeeds;
\* when it transferred at least one byte through a handle not opened in
\* append-only mode, the file is then at least offset + count long and the
\* gap reads back as zeros.
C6_SparseExtension ==
    WroteBeyondEnd =>
        /\ res[Caller].ok
        /\ (res[Caller].count > 0 /\ ~append) => Extended

C6_Witness ==
    /\ WroteBeyondEnd /\ ~append
    /\ res[Caller].ok /\ res[Caller].count > 0
    /\ presize > 0 /\ file[presize + 1] = 0
    /\ Len(file) = req[Caller].offset + res[Caller].count

\* C7: a returned call issued exactly one back-end call and returned that
\* call's result unchanged: the host's fault, if one was raised, is the error
\* the caller gets.  A caller's retry of an interrupted call succeeds when the
\* host raises no fault in it.
C7_ErrorFidelity ==
    \A t \in Threads :
        pc[t] = "returned" =>
            /\ ncalls[t] = 1
            /\ res[t] = sysres[t]
            /\ fault[t] # "none" => res[t] = Err(fault[t])
            /\ (t = Caller /\ follow.kind = "retry" /\ fault[t] = "none") => res[t].ok

C7_Witness ==
    /\ pc[Caller] = "returned" /\ follow.kind = "retry"
    /\ res[Caller].ok /\ res[Caller].count > 0

\* The intersection of the ranges two returned writes transferred.
Overlap(t, u) ==
    {i \in 1..MaxSize :
        /\ i > req[t].offset /\ i <= req[t].offset + res[t].count
        /\ i > req[u].offset /\ i <= req[u].offset + res[u].count}

WroteOk(t) == pc[t] = "returned" /\ req[t].op = "write" /\ res[t].ok

\* A read_offset that returns delivers the file's bytes as they are at the
\* instant of its back-end call, and at that instant no other call has
\* transferred only a part of what it will report.
ReadsOneInstant ==
    \A t \in Threads :
        (Completes(t) /\ req[t].op = "read" /\ res'[t].ok) =>
            /\ \A i \in 1..res'[t].count : buf'[t][i] = file[req[t].offset + i]
            /\ \A u \in Threads \ {t} : ~(pc[u] = "called" /\ ncalls[u] > 0)

\* The ranges two writes transferred overlap and the overlap holds wholly the
\* bytes of one of them.
OverlapIsOneWriters(t, u) ==
    \/ \A i \in Overlap(t, u) :
            i <= Len(file) /\ file[i] = buf[t][i - req[t].offset]
    \/ \A i \in Overlap(t, u) :
            i <= Len(file) /\ file[i] = buf[u][i - req[u].offset]

C9_ZeroLength ==
    [][\A t \in Threads :
        (Completes(t) /\ Len(buf[t]) = 0 /\ fault'[t] = "none") =>
            (res'[t] = Ok(0) /\ file' = file)]_vars

C9_Witness ==
    /\ pc[Caller] = "returned" /\ req[Caller].op = "write"
    /\ Len(buf[Caller]) = 0 /\ req[Caller].offset > Len(file)
    /\ Len(file) > 0 /\ res[Caller] = Ok(0)

\* The step changes the file only as a successful write of thread t that
\* returns count does: bytes [offset, offset + count) become the first count
\* bytes of the buffer, a gap between the old end and offset becomes zeros,
\* and every other byte and, without growth, the size stay.
WriteFrame(t) ==
    LET o == req[t].offset
        n == res'[t].count
    IN /\ Len(file') = IF n = 0 THEN Len(file) ELSE Max(Len(file), o + n)
       /\ \A i \in 1..Len(file') :
            IF i > o /\ i <= o + n THEN file'[i] = buf[t][i - o]
            ELSE IF i <= Len(file) THEN file'[i] = file[i]
            ELSE file'[i] = 0

FrameStep ==
    IF \E t \in Threads : Completes(t) /\ req[t].op = "write" /\ res'[t].ok
    THEN \A t \in Threads :
            (Completes(t) /\ req[t].op = "write" /\ res'[t].ok) => WriteFrame(t)
    ELSE file' = file

\* C10 (as stated): for every handle, a step changes file bytes only as the
\* successful write_offset that returns in it does at [offset, offset + count)
\* and in the gap it creates; a read, a failed call, entering a call and a
\* seek change no byte and not the size.
C10_FrameEveryHandle == [][FrameStep]_vars

\* C10 (amended): the same for a handle that was not opened in append-only
\* mode.
C10_Frame == [][~append => FrameStep]_vars

C10_Witness ==
    /\ ~append
    /\ pc[Caller] = "returned" /\ req[Caller].op = "write"
    /\ res[Caller].ok /\ res[Caller].count = 1 /\ Len(buf[Caller]) = MaxLen
    /\ req[Caller].offset = 1 /\ presize = 3
    /\ file = <<1, 11, 3>>

====
